---- MODULE Spec2Model ----
(***************************************************************************)
(* Model of the order-book test-data generators                            *)
(*   scripts/generate_small_test_orderbook.py  (variant "small")           *)
(*   scripts/generate_test_orderbook.py        (variant "full")            *)
(*                                                                         *)
(* Numbers.  Python floats are modelled in fixed point:                    *)
(*   prices          in cents            (108000.0  ->  10800000)          *)
(*   sizes           in 1e-6 units       (round(volume, 6))                *)
(*   returns, trend  in 1e-4 units       (gauss(0, 0.0001) has stddev 1)   *)
(*   base_spread     in 1e-2 units       (0.01 -> 1)                       *)
(*   uniform(0.5, 2) in 1e-2 units       (50 .. 200)                       *)
(* The module-level random source is a pseudo-random generator: its state  *)
(* is an integer, every draw reads the state and advances it.              *)
(* Wall-clock reads (time.time(), datetime.now()) are inputs.              *)
(***************************************************************************)
EXTENDS Integers, Sequences, FiniteSets, TLC

VARIABLES
    pc,            \* per run: position in main() / kind of use
    variant,       \* per run: "small" or "full" script
    duration,      \* per run: duration_minutes / duration_hours argument
    interval_ms,   \* per run: interval_ms argument
    rng,           \* per run: state of the random module
    generator,     \* per run: the OrderBookGenerator object (fields)
    calls,         \* per run: number of generate_price_movement calls so far
    num_snapshots, \* per run: local num_snapshots of the series builder
    i,             \* per run: loop index of the series builder
    start_time,    \* per run: local start_time of the series builder
    snapshots,     \* per run: the list of snapshots
    levels,        \* per run: the unsorted `levels` lists of the last snapshot
    output_data    \* per run: the document written by save_*_data (or NoDoc)

vars == <<pc, variant, duration, interval_ms, rng, generator, calls,
          num_snapshots, i, start_time, snapshots, levels, output_data>>

----------------------------------------------------------------------------
(* Bounds of the model *)

\* seeds of the random source are 0 .. MaxSeed
MaxSeed == 3
\* wall-clock readings are 0 .. MaxClock (milliseconds)
MaxClock == 1
\* the duration argument ranges over -1 .. MaxDuration
MaxDuration == 2
\* direct users of an OrderBookGenerator make at most MaxCalls method calls
MaxCalls == 4

----------------------------------------------------------------------------
(* Program constants *)

DefaultBasePrice == 10800000
DefaultBaseSpread == 1
PriceFloor == 10000000
PriceCeiling == 12000000
SmallNumLevels == 20
FullNumLevels == 50
MetaIntervalMs == 100

Variants == {"small", "full"}

NumLevels(v) == IF v = "small" THEN SmallNumLevels ELSE FullNumLevels

\* milliseconds per unit of the duration argument
MsPerUnit(v) == IF v = "small" THEN 60 * 1000 ELSE 60 * 60 * 1000

----------------------------------------------------------------------------
(* Arithmetic helpers *)

Max(a, b) == IF a >= b THEN a ELSE b
Min(a, b) == IF b < a THEN b ELSE a

\* a / b rounded to the nearest integer, ties to even (b > 0): round()
RoundDiv(a, b) ==
    LET q == a \div b
        r == a - q * b
    IN  IF 2 * r < b THEN q
        ELSE IF 2 * r > b THEN q + 1
        ELSE IF q % 2 = 0 THEN q ELSE q + 1

\* round(base + a / b) for integer base, ties to even
RoundOffset(base, a, b) ==
    LET q == a \div b
        r == a - q * b
        lo == base + q
    IN  IF 2 * r < b THEN lo
        ELSE IF 2 * r > b THEN lo + 1
        ELSE IF lo % 2 = 0 THEN lo ELSE lo + 1

\* price * (1 + change), change in 1e-4 units, on the cent grid
ApplyChange(price, change) ==
    LET q == price \div 10000
        r == price % 10000
    IN  price + q * change + ((r * change) \div 10000)

----------------------------------------------------------------------------
(* The random module *)

\* a full-period congruential generator on 0 .. 63
NextRng(s) == (13 * s + 7) % 64

\* random.gauss(0, 0.0001), in 1e-4 units; the support is unbounded
GaussTable == <<-20000, -3, -2, -1, -1, 0, 0, 0, 0, 1, 1, 2, 3, 5, -5, 20000>>
Gauss(s) == GaussTable[(s \div 4) + 1]

\* the state of the source after seeding with k
Seeded(k) == (21 * k + 7) % 64

\* random.uniform(0.5, 2.0), in 1e-2 units
UniformNoise(s) == 50 + ((s \div 4) * 10)

\* random.random() < 0.05
LargeOrder(s) == s * 100 < 5 * 64

\* random.uniform(5, 20)
UniformLarge(s) == 5 + (s \div 4)

----------------------------------------------------------------------------
(* class OrderBookGenerator *)

\* __init__
NewGenerator(base_price, base_spread) ==
    [base_price    |-> base_price,
     base_spread   |-> base_spread,
     current_price |-> base_price,
     price_trend   |-> 0]

\* the clamp without its floor: min(120000, price)
ClampCeilingOnly(price) == Min(PriceCeiling, price)

\* max(100000, min(120000, price))
Clamp(price) == Max(PriceFloor, Min(PriceCeiling, price))

\* generate_price_movement: two gauss draws, trend decay, multiplicative
\* update, clamp.  Yields the updated object, the random state and the
\* returned price.
GeneratePriceMovement(g, s) ==
    LET trend_change     == Gauss(s)
        s1               == NextRng(s)
        price_trend      == RoundDiv(g.price_trend * 99, 100) + trend_change
        random_component == Gauss(s1)
        s2               == NextRng(s1)
        price_change     == price_trend + random_component
        current_price    == Clamp(ApplyChange(g.current_price, price_change))
    IN  [gen |-> [g EXCEPT !.price_trend = price_trend,
                           !.current_price = current_price],
         rng |-> s2,
         ret |-> current_price]

\* the signs of a conventional book: bids below the mid price, asks above
SpreadMultiplierConventional(side) == IF side = "bid" THEN -1 ELSE 1

\* 1.0 if side == 'bid' else -1.0
SpreadMultiplier(side) == IF side = "bid" THEN 1 ELSE -1

\* price of level idx: round(mid_price + mid_price * level_offset, 2) with
\* level_offset = base_spread * spread_multiplier * (1 + idx * 0.1)
LevelPrice(g, mid_price, side, idx) ==
    RoundOffset(mid_price,
                mid_price * (g.base_spread * SpreadMultiplier(side)) * (10 + idx),
                1000)

\* size of level idx: round(volume, 6) with
\* volume = 10.0 * (1 / (1 + idx * 0.2)) * volume_noise [* large multiplier]
LevelSize(idx, noise, mult) == RoundDiv(500000 * noise * mult, 5 + idx)

\* the for loop of generate_order_levels; acc is `levels`, whose length is
\* the index of the next iteration
RECURSIVE LevelLoop(_, _, _, _, _, _)
LevelLoop(g, mid_price, side, n, s, acc) ==
    IF Len(acc) >= n THEN [levels |-> acc, rng |-> s]
    ELSE LET idx   == Len(acc)
             noise == UniformNoise(s)
             s1    == NextRng(s)
             large == LargeOrder(s1)
             s2    == NextRng(s1)
             mult  == IF large THEN UniformLarge(s2) ELSE 1
             s3    == IF large THEN NextRng(s2) ELSE s2
             level == [price |-> LevelPrice(g, mid_price, side, idx),
                       size  |-> LevelSize(idx, noise, mult)]
         IN  LevelLoop(g, mid_price, side, n, s3, Append(acc, level))

\* x goes before y in the sorted list of this side
Before(x, y, side) ==
    IF side = "bid" THEN x.price > y.price ELSE x.price < y.price

\* the number of leading elements of a sorted list, from position k on, that
\* x does not go before
RECURSIVE InsertPos(_, _, _, _)
InsertPos(sorted, x, side, k) ==
    IF k > Len(sorted) \/ Before(x, sorted[k], side) THEN k - 1
    ELSE InsertPos(sorted, x, side, k + 1)

\* insert x into a sorted list behind every element that x does not go
\* before, so that equal prices keep the order in which they were generated
InsertLevel(sorted, x, side) ==
    LET p == InsertPos(sorted, x, side, 1)
    IN  SubSeq(sorted, 1, p) \o <<x>> \o SubSeq(sorted, p + 1, Len(sorted))

\* levels.sort(key=price, reverse=(side == 'bid')): a stable sort; acc holds
\* the first Len(acc) elements of lv, sorted
RECURSIVE SortFrom(_, _, _)
SortFrom(lv, side, acc) ==
    IF Len(acc) >= Len(lv) THEN acc
    ELSE SortFrom(lv, side, InsertLevel(acc, lv[Len(acc) + 1], side))

\* the sort without reverse=True for the bids
SortLevelsRising(lv, side) == SortFrom(lv, "ask", <<>>)

SortLevels(lv, side) == SortFrom(lv, side, <<>>)

\* generate_order_levels: the unsorted list, the returned list, the random state
GenerateOrderLevels(g, s, mid_price, side, num_levels) ==
    LET made == LevelLoop(g, mid_price, side, num_levels, s, <<>>)
    IN  [raw |-> made.levels,
         ret |-> SortLevels(made.levels, side),
         rng |-> made.rng]

\* the spread with its operands exchanged
SpreadOfBidMinusAsk(bids, asks) ==
    IF bids # <<>> /\ asks # <<>> THEN bids[1].price - asks[1].price ELSE 0

\* 'spread': asks[0]['price'] - bids[0]['price'] if bids and asks else 0.0
SpreadOf(bids, asks) ==
    IF bids # <<>> /\ asks # <<>> THEN asks[1].price - bids[1].price ELSE 0

\* generate_snapshot
GenerateSnapshot(g, s, timestamp_ms, num_levels) ==
    LET moved == GeneratePriceMovement(g, s)
        current_price == moved.ret
        bids == GenerateOrderLevels(moved.gen, moved.rng, current_price,
                                    "bid", num_levels)
        asks == GenerateOrderLevels(moved.gen, bids.rng, current_price,
                                    "ask", num_levels)
    IN  [gen |-> moved.gen,
         rng |-> asks.rng,
         raw |-> [bids |-> bids.raw, asks |-> asks.raw],
         ret |-> [timestamp |-> timestamp_ms,
                  symbol    |-> "BTC-USD",
                  bids      |-> bids.ret,
                  asks      |-> asks.ret,
                  mid_price |-> current_price,
                  spread    |-> SpreadOf(bids.ret, asks.ret)]]

----------------------------------------------------------------------------
(* save_small_test_data / save_test_data *)

\* the 'timeframe_coverage' dictionary of the small script
SmallCoverage(n) ==
    "100ms" :> n @@ "500ms" :> (n \div 5) @@ "1sec" :> (n \div 10) @@
    "1min" :> (n \div 600) @@ "5min" :> (n \div 3000)

\* the full dictionary with 60 minutes taken for 3600 snapshots
FullCoverageShortHour(n) ==
    "100ms" :> n @@ "500ms" :> (n \div 5) @@ "1sec" :> (n \div 10) @@
    "1min" :> (n \div 600) @@ "5min" :> (n \div 3000) @@
    "15min" :> (n \div 9000) @@ "60min" :> (n \div 3600)

\* the 'timeframe_coverage' dictionary of the full script
FullCoverage(n) ==
    "100ms" :> n @@ "500ms" :> (n \div 5) @@ "1sec" :> (n \div 10) @@
    "1min" :> (n \div 600) @@ "5min" :> (n \div 3000) @@
    "15min" :> (n \div 9000) @@ "60min" :> (n \div 36000)

\* the metadata dictionary; the float 'duration_minutes' / 'duration_hours'
\* is kept as the quotient num / den that the code evaluates
Metadata(v, snaps, now) ==
    [generated_at  |-> now,
     duration_key  |-> IF v = "small" THEN "duration_minutes" ELSE "duration_hours",
     duration      |-> [num |-> Len(snaps) * 100,
                        den |-> IF v = "small" THEN 1000 * 60 ELSE 1000 * 60 * 60],
     interval_ms   |-> MetaIntervalMs,
     num_snapshots |-> Len(snaps),
     timeframe_coverage |->
         IF v = "small" THEN SmallCoverage(Len(snaps)) ELSE FullCoverage(Len(snaps))]

\* output_data, as dumped to the file
OutputData(v, snaps, now) ==
    [metadata |-> Metadata(v, snaps, now), snapshots |-> snaps]

----------------------------------------------------------------------------
(* generate_small_test_data / generate_test_data *)

\* total_ms // interval_ms  (interval_ms # 0)
NumSnapshots(v, d, interval) == (d * MsPerUnit(v)) \div interval

\* the timestamp without the start time
TimestampWithoutStart(start, idx, interval) == idx * interval

\* timestamp = start_time + (i * interval_ms)
Timestamp(start, idx, interval) == start + (idx * interval)

----------------------------------------------------------------------------
(* Inputs *)

Seeds == {Seeded(k) : k \in 0 .. MaxSeed}
Clock == 0 .. MaxClock
Durations == -1 .. MaxDuration

\* interval_ms arguments: negative, zero, and positive values that divide
\* the duration unevenly (2.4, 1.33 and 0.6 snapshots per unit of duration)
IntervalFactors == {-5, 0, 5, 9, 20}
Intervals(v) == {f * (MsPerUnit(v) \div 12) : f \in IntervalFactors}
AllIntervals == UNION {Intervals(v) : v \in Variants}

\* constructor arguments of directly used generators: below the floor, the
\* default, the ceiling, above the ceiling; no spread and the default spread
BasePrices == {5000000, DefaultBasePrice, PriceCeiling, 15000000}
BaseSpreads == {0, DefaultBaseSpread}

\* lengths of the lists handed directly to save_*_data
SaveLengths == {0, 1, 4, 5, 6, 9, 10, 11, 19, 20, 599, 600, 601, 1199, 1200,
                2999, 3000, 3001, 6000, 8999, 9000, 35999, 36000}

NoLevels == [bids |-> <<>>, asks |-> <<>>]
NoGenerator == NewGenerator(0, 0)
NoDoc == [metadata |-> <<>>, snapshots |-> <<>>]

----------------------------------------------------------------------------
(* Actions.  r is a run of the program; runs happen one after another. *)

RunIds == {1, 2}

\* the runs of this behaviour
Runs == DOMAIN pc

\* lines 93-102 (small) / 109-120 (full) of the series builder, or the
\* ZeroDivisionError of total_ms // interval_ms
Begin(r) ==
    /\ r \in Runs
    /\ pc[r] = "start"
    /\ \A q \in Runs : q < r => pc[q] \in {"saved", "error"}
    /\ IF interval_ms[r] = 0
       THEN /\ pc' = [pc EXCEPT ![r] = "error"]
            /\ UNCHANGED <<generator, num_snapshots, start_time>>
       ELSE /\ pc' = [pc EXCEPT ![r] = "loop"]
            /\ num_snapshots' = [num_snapshots EXCEPT ![r] =
                   NumSnapshots(variant[r], duration[r], interval_ms[r])]
            /\ generator' = [generator EXCEPT ![r] =
                   NewGenerator(DefaultBasePrice, DefaultBaseSpread)]
            /\ \E t \in Clock : start_time' = [start_time EXCEPT ![r] = t]
    /\ UNCHANGED <<variant, duration, interval_ms, rng, calls, i, snapshots,
                   levels, output_data>>

\* one iteration of `for i in range(num_snapshots)`
Tick(r) ==
    /\ r \in Runs
    /\ pc[r] = "loop"
    /\ i[r] < num_snapshots[r]
    /\ \E made \in {GenerateSnapshot(generator[r], rng[r],
                         Timestamp(start_time[r], i[r], interval_ms[r]),
                         NumLevels(variant[r]))} :
           /\ generator' = [generator EXCEPT ![r] = made.gen]
           /\ rng' = [rng EXCEPT ![r] = made.rng]
           /\ levels' = [levels EXCEPT ![r] = made.raw]
           /\ snapshots' = [snapshots EXCEPT ![r] = Append(@, made.ret)]
    /\ calls' = [calls EXCEPT ![r] = @ + 1]
    /\ i' = [i EXCEPT ![r] = @ + 1]
    /\ UNCHANGED <<pc, variant, duration, interval_ms, num_snapshots,
                   start_time, output_data>>

\* the range is exhausted: `return snapshots`
Return(r) ==
    /\ r \in Runs
    /\ pc[r] = "loop"
    /\ i[r] >= num_snapshots[r]
    /\ pc' = [pc EXCEPT ![r] = "returned"]
    /\ UNCHANGED <<variant, duration, interval_ms, rng, generator, calls,
                   num_snapshots, i, start_time, snapshots, levels, output_data>>

\* save_small_test_data(snapshots) / save_test_data(snapshots)
Save(r) ==
    /\ r \in Runs
    /\ pc[r] \in {"returned", "direct"}
    /\ \E now \in Clock :
           output_data' = [output_data EXCEPT ![r] =
               OutputData(variant[r], snapshots[r], now)]
    /\ pc' = [pc EXCEPT ![r] = "saved"]
    /\ UNCHANGED <<variant, duration, interval_ms, rng, generator, calls,
                   num_snapshots, i, start_time, snapshots, levels>>

\* a direct call of generator.generate_price_movement()
CallPriceMovement(r) ==
    /\ r \in Runs
    /\ pc[r] = "object"
    /\ calls[r] < MaxCalls
    /\ \E moved \in {GeneratePriceMovement(generator[r], rng[r])} :
           /\ generator' = [generator EXCEPT ![r] = moved.gen]
           /\ rng' = [rng EXCEPT ![r] = moved.rng]
    /\ calls' = [calls EXCEPT ![r] = @ + 1]
    /\ UNCHANGED <<pc, variant, duration, interval_ms, num_snapshots, i,
                   start_time, snapshots, levels, output_data>>

\* a direct call of generator.generate_snapshot(t), the caller stamping the
\* k-th snapshot with k * 100 ms and keeping the returned snapshots in a list
CallSnapshot(r) ==
    /\ r \in Runs
    /\ pc[r] = "object"
    /\ calls[r] < MaxCalls
    /\ \E made \in {GenerateSnapshot(generator[r], rng[r],
                         Timestamp(0, Len(snapshots[r]), MetaIntervalMs),
                         NumLevels(variant[r]))} :
           /\ generator' = [generator EXCEPT ![r] = made.gen]
           /\ rng' = [rng EXCEPT ![r] = made.rng]
           /\ levels' = [levels EXCEPT ![r] = made.raw]
           /\ snapshots' = [snapshots EXCEPT ![r] = Append(@, made.ret)]
    /\ calls' = [calls EXCEPT ![r] = @ + 1]
    /\ UNCHANGED <<pc, variant, duration, interval_ms, num_snapshots, i,
                   start_time, output_data>>

----------------------------------------------------------------------------
(* Specifications *)


\* the locals that hold nothing before the program starts
InitLocals(R) ==
    /\ calls = [r \in R |-> 0]
    /\ num_snapshots = [r \in R |-> 0]
    /\ i = [r \in R |-> 0]
    /\ start_time = [r \in R |-> 0]
    /\ levels = [r \in R |-> NoLevels]
    /\ output_data = [r \in R |-> NoDoc]

\* main() with arbitrary arguments in place of (5, 100) / (1, 100)
InitMain(R) ==
    /\ pc = [r \in R |-> "start"]
    /\ variant \in [R -> Variants]
    /\ duration \in [R -> Durations]
    /\ interval_ms \in [R -> AllIntervals]
    /\ \A r \in R : interval_ms[r] \in Intervals(variant[r])
    /\ rng \in [R -> Seeds]
    /\ generator = [r \in R |-> NoGenerator]
    /\ snapshots = [r \in R |-> <<>>]
    /\ InitLocals(R)

Init == InitMain({1})

Next == \E r \in RunIds : Begin(r) \/ Tick(r) \/ Return(r) \/ Save(r)

\* one run of a script: build the series, then save it
Spec == Init /\ [][Next]_vars

\* two runs with identical configuration and the same seed, of at most one
\* unit of duration
InitPair ==
    /\ InitMain({1, 2})
    /\ duration[1] \in {0, 1}
    /\ variant[1] = variant[2]
    /\ duration[1] = duration[2]
    /\ interval_ms[1] = interval_ms[2]
    /\ rng[1] = rng[2]

SpecPair == InitPair /\ [][Next]_vars

\* an OrderBookGenerator constructed with arbitrary arguments and used directly
InitObject ==
    /\ pc = [r \in {1} |-> "object"]
    /\ variant \in [{1} -> Variants]
    /\ duration = [r \in {1} |-> 0]
    /\ interval_ms = [r \in {1} |-> 0]
    /\ rng \in [{1} -> Seeds]
    /\ \E bp \in BasePrices, bs \in BaseSpreads :
           generator = [r \in {1} |-> NewGenerator(bp, bs)]
    /\ snapshots = [r \in {1} |-> <<>>]
    /\ InitLocals({1})

NextObject == \E r \in RunIds : CallPriceMovement(r) \/ CallSnapshot(r)

SpecObject == InitObject /\ [][NextObject]_vars

\* an entry of a list handed to save_*_data, which reads len(snapshots) only
\* and never looks inside an entry
Entry(k) == [timestamp |-> k, symbol |-> "BTC-USD"]

\* save_*_data called on a list of a given length
InitSave ==
    /\ pc = [r \in {1} |-> "direct"]
    /\ variant \in [{1} -> Variants]
    /\ duration = [r \in {1} |-> 0]
    /\ interval_ms = [r \in {1} |-> 0]
    /\ rng = [r \in {1} |-> 0]
    /\ generator = [r \in {1} |-> NoGenerator]
    /\ \E n \in SaveLengths :
           snapshots = [r \in {1} |-> [k \in 1 .. n |-> Entry(k)]]
    /\ InitLocals({1})

NextSave == \E r \in RunIds : Save(r)

SpecSave == InitSave /\ [][NextSave]_vars

----------------------------------------------------------------------------
(* Properties *)

\* the runs whose series builder has returned
Returned == {r \in Runs : pc[r] \in {"returned", "saved"}}

\* the timestamps of a list of snapshots
Stamps(snaps) == [k \in 1 .. Len(snaps) |-> snaps[k].timestamp]

\* a list of levels is sorted by price, falling or rising
Falling(lv) == \A k \in 1 .. Len(lv) - 1 : lv[k].price >= lv[k + 1].price
Rising(lv) == \A k \in 1 .. Len(lv) - 1 : lv[k].price <= lv[k + 1].price

\* how often a level occurs in a list
Count(lv, x) == Cardinality({k \in 1 .. Len(lv) : lv[k] = x})

\* two lists hold the same levels, each as often
SameLevels(a, b) ==
    /\ Len(a) = Len(b)
    /\ \A k \in 1 .. Len(a) : Count(a, a[k]) = Count(b, a[k])

\* C1: for every duration and every positive interval_ms the series builder
\* returns exactly floor(total_duration_ms / interval_ms) snapshots, with
\* 3000 for (5 min, 100 ms) and 36000 for (1 h, 100 ms).
C1_SnapshotCount ==
    /\ NumSnapshots("small", 5, 100) = 3000
    /\ NumSnapshots("full", 1, 100) = 36000
    /\ \A r \in Returned :
           interval_ms[r] > 0 =>
               Len(snapshots[r]) =
                   (duration[r] * (IF variant[r] = "small" THEN 60000 ELSE 3600000))
                       \div interval_ms[r]

\* C2: in a series of one run the k-th snapshot is stamped
\* start_time + k * interval_ms, so that consecutive timestamps rise strictly,
\* by exactly interval_ms.
C2_TimestampsRise ==
    \A r \in Runs :
        pc[r] \in {"loop", "returned", "saved"} =>
            LET ts == Stamps(snapshots[r])
            IN  /\ \A k \in 1 .. Len(ts) :
                       ts[k] = start_time[r] + (k - 1) * interval_ms[r]
                /\ \A k \in 1 .. Len(ts) - 1 :
                       /\ ts[k + 1] > ts[k]
                       /\ ts[k + 1] - ts[k] = interval_ms[r]

\* C3: after one or more price steps, from any starting price and under any
\* trend, current_price lies in [100000, 120000], and so does the mid_price
\* of every snapshot.
C3_PriceClamped ==
    \A r \in Runs :
        /\ calls[r] >= 1 =>
               /\ generator[r].current_price >= 10000000
               /\ generator[r].current_price <= 12000000
        /\ \A k \in 1 .. Len(snapshots[r]) :
               /\ snapshots[r][k].mid_price >= 10000000
               /\ snapshots[r][k].mid_price <= 12000000

\* C3 witness: a generator constructed outside the range has been driven to
\* the floor by a trend below -100 % per step
C3_Witness ==
    \E r \in Runs :
        /\ generator[r].base_price > 12000000
        /\ calls[r] >= 2
        /\ generator[r].price_trend < -10000
        /\ generator[r].current_price = 10000000

\* C4: in every snapshot the bids are sorted by falling price and the asks by
\* rising price, each side holds exactly the 20 / 50 levels that were
\* generated, and levels of equal price are all kept.
C4_SortedPermutation ==
    \A r \in Runs :
        /\ \A k \in 1 .. Len(snapshots[r]) :
               /\ Falling(snapshots[r][k].bids)
               /\ Rising(snapshots[r][k].asks)
               /\ Len(snapshots[r][k].bids) = (IF variant[r] = "small" THEN 20 ELSE 50)
               /\ Len(snapshots[r][k].asks) = (IF variant[r] = "small" THEN 20 ELSE 50)
        /\ snapshots[r] # <<>> =>
               /\ SameLevels(levels[r].bids, snapshots[r][Len(snapshots[r])].bids)
               /\ SameLevels(levels[r].asks, snapshots[r][Len(snapshots[r])].asks)

\* C4 witness: a snapshot of 50 levels a side whose first two bids have the
\* same price and different sizes
C4_Witness ==
    \E r \in Runs :
        \E k \in 1 .. Len(snapshots[r]) :
            /\ Len(snapshots[r][k].bids) = 50
            /\ snapshots[r][k].bids[1].price = snapshots[r][k].bids[2].price
            /\ snapshots[r][k].bids[1].size # snapshots[r][k].bids[2].size

\* C5: the coverage count of every label is floor(num_snapshots / ratio), the
\* ratios being 5, 10, 600, 3000 and, in the full script, 9000 and 36000; a
\* 5-minute run at 100 ms has 1min = 5 and 5min = 1, a 1-hour run at 100 ms
\* has 15min = 4 and 60min = 1.
C5_Coverage ==
    /\ NumSnapshots("small", 5, 100) = 3000
    /\ NumSnapshots("full", 1, 100) = 36000
    /\ \A r \in Runs :
           pc[r] = "saved" =>
               LET n   == Len(output_data[r].snapshots)
                   cov == output_data[r].metadata.timeframe_coverage
               IN  /\ output_data[r].metadata.num_snapshots = n
                   /\ cov["500ms"] = n \div 5
                   /\ cov["1sec"] = n \div 10
                   /\ cov["1min"] = n \div 600
                   /\ cov["5min"] = n \div 3000
                   /\ variant[r] = "full" =>
                          /\ cov["15min"] = n \div 9000
                          /\ cov["60min"] = n \div 36000
                   /\ n = 3000 => cov["1min"] = 5 /\ cov["5min"] = 1
                   /\ (n = 36000 /\ variant[r] = "full") =>
                          cov["15min"] = 4 /\ cov["60min"] = 1

\* C5 witness: the small script has saved 3000 entries, the length of a
\* 5-minute run at 100 ms, and reports five 1-minute points and one
\* 5-minute point
C5_Witness ==
    \E r \in Runs :
        /\ pc[r] = "saved"
        /\ variant[r] = "small"
        /\ Len(output_data[r].snapshots) = 3000
        /\ output_data[r].metadata.timeframe_coverage["1min"] = 5
        /\ output_data[r].metadata.timeframe_coverage["5min"] = 1

\* C6: in every snapshot spread is asks[0].price - bids[0].price, and the
\* fallback for an empty side is not taken: both sides hold 20 or 50 levels.
C6_Spread ==
    \A r \in Runs :
        \A k \in 1 .. Len(snapshots[r]) :
            /\ Len(snapshots[r][k].bids) \in {20, 50}
            /\ Len(snapshots[r][k].asks) \in {20, 50}
            /\ snapshots[r][k].spread =
                   snapshots[r][k].asks[1].price - snapshots[r][k].bids[1].price

\* C6 witness: a series of two snapshots, the second with a spread other
\* than 0
C6_Witness ==
    \E r \in Runs :
        /\ Len(snapshots[r]) >= 2
        /\ snapshots[r][2].spread # 0

\* C7: called with a non-positive duration or a non-positive interval_ms, the
\* series builder fails with an error and returns no series.
C7_FailsFast ==
    \A r \in Runs :
        (duration[r] <= 0 \/ interval_ms[r] <= 0) =>
            pc[r] \notin {"returned", "saved"}

\* C8: two runs with identical configuration and the same seed produce
\* identical output documents.
C8_IdenticalDocuments ==
    (Runs = {1, 2} /\ pc[1] = "saved" /\ pc[2] = "saved") =>
        output_data[1] = output_data[2]

\* a snapshot without its timestamp
Unstamped(sn) ==
    [symbol |-> sn.symbol, bids |-> sn.bids, asks |-> sn.asks,
     mid_price |-> sn.mid_price, spread |-> sn.spread]

\* C8, amended: the two documents agree in everything but the wall-clock
\* readings: generated_at is free, and the timestamps of the k-th snapshots
\* lie equally far behind the start time of their run.
C8_IdenticalUpToClock ==
    (Runs = {1, 2} /\ pc[1] = "saved" /\ pc[2] = "saved") =>
        LET a == output_data[1]
            b == output_data[2]
        IN  /\ [a.metadata EXCEPT !.generated_at = 0] =
                   [b.metadata EXCEPT !.generated_at = 0]
            /\ Len(a.snapshots) = Len(b.snapshots)
            /\ \A k \in 1 .. Len(a.snapshots) :
                   /\ Unstamped(a.snapshots[k]) = Unstamped(b.snapshots[k])
                   /\ a.snapshots[k].timestamp - start_time[1] =
                          b.snapshots[k].timestamp - start_time[2]

\* C8 witness: both runs have saved a series of two snapshots, started at
\* different times
C8_Witness ==
    /\ Runs = {1, 2}
    /\ pc[1] = "saved" /\ pc[2] = "saved"
    /\ Len(output_data[1].snapshots) = 2
    /\ start_time[1] # start_time[2]
    /\ output_data[1] # output_data[2]

\* C9: with the default base_spread every bid of a snapshot lies strictly
\* above mid_price and every ask strictly below it, and spread is negative.
C9_BidsAboveAsksBelow ==
    \A r \in Runs :
        generator[r].base_spread = 1 =>
            \A k \in 1 .. Len(snapshots[r]) :
                LET sn == snapshots[r][k]
                IN  /\ \A j \in 1 .. Len(sn.bids) : sn.bids[j].price > sn.mid_price
                    /\ \A j \in 1 .. Len(sn.asks) : sn.asks[j].price < sn.mid_price
                    /\ sn.bids[1].price > sn.mid_price
                    /\ sn.mid_price > sn.asks[1].price
                    /\ sn.spread < 0

\* C9 witness: a snapshot at the price floor, made with the default spread,
\* whose best bid is above and whose best ask is below the mid price
C9_Witness ==
    \E r \in Runs :
        /\ generator[r].base_spread = 1
        /\ \E k \in 1 .. Len(snapshots[r]) :
               /\ snapshots[r][k].mid_price = 10000000
               /\ snapshots[r][k].bids[1].price > 10000000
               /\ snapshots[r][k].asks[1].price < 10000000

\* C10: the metadata of a saved series built with a positive interval_ms
\* describes it: interval_ms is the interval of the builder, and the duration
\* is num_snapshots * interval_ms in minutes / hours.
C10_MetadataDescribesSeries ==
    \A r \in Runs :
        (pc[r] = "saved" /\ interval_ms[r] > 0) =>
            /\ output_data[r].metadata.interval_ms = interval_ms[r]
            /\ output_data[r].metadata.duration.num =
                   Len(snapshots[r]) * interval_ms[r]
            /\ output_data[r].metadata.duration.den =
                   (IF variant[r] = "small" THEN 60000 ELSE 3600000)

====
